---- MODULE Spec2Model ----
(***************************************************************************)
(* Model of the VS Code tunnel action: main() of the timeout variant       *)
(* (src/unnamed/part_000).  One run of main() is a sequence of steps, one  *)
(* per external call before the child is spawned, and one per event        *)
(* callback (stdout/stderr data, timers, error, close) afterwards.         *)
(***************************************************************************)
EXTENDS Integers, Sequences, FiniteSets, TLC

VARIABLES
    pc,               \* position of main()
    runnerPlatform,   \* platform()
    runnerArch,       \* arch()
    githubActor,      \* process.env.GITHUB_ACTOR || ''
    stableVersion,    \* result of fetchStableReleaseVersion
    toolCache,        \* (tool name, version) keys held by the runner tool cache
    cliPath,          \* path handed to spawn
    calls,            \* external calls made so far, in order
    connected,        \* let connected
    connectionTimer,  \* let connectionTimer: "null", "pending" or "fired"
    sessionTimer,     \* let sessionTimer: "null", "pending" or "fired"
    sessionArmed,     \* number of setTimeout calls that armed the session timer
    child,            \* the child process as the supervisor can observe it
    markerLines,      \* stdout lines containing the indicator handled so far
    events,           \* error and close events of the child handled so far
    settled,          \* state of the termination promise
    reason,           \* rejection reason of the termination promise
    failedMsg,        \* message given to setFailed
    exitStatus,       \* process exit status: <<>> while running, else <<n>>
    invocation,       \* number of the current run of main() on this runner
    downloads,        \* per version, archives downloaded by all runs so far
    tunnelName,       \* getInput('tunnel-name')
    nameArg,          \* value pushed after '--name': <<>> or <<name>>
    noCacheCliAuth,   \* the input no-cache-cli-auth of the workflow step
    keepAliveElapsed, \* keep-alive-duration seconds have passed since spawn
    request,          \* the https.get request of fetchStableReleaseVersion
    body,             \* response body of the releases API
    resolved,         \* value the version promise resolved with: <<>> or <<v>>
    written,          \* text the child writes to the observed stream
    channel,          \* the observed stream: "stdout" or "stderr"
    delivered,        \* characters of written handed to the data handler
    log               \* lines emitted by the data handlers, with their level

vars == <<pc, runnerPlatform, runnerArch, githubActor, stableVersion, toolCache,
          cliPath, calls, connected, connectionTimer, sessionTimer,
          sessionArmed, child, markerLines, events, settled, reason, failedMsg,
          exitStatus, invocation, downloads, tunnelName, nameArg,
          noCacheCliAuth, keepAliveElapsed, request, body, resolved,
          written, channel, delivered, log>>

inputVars == <<invocation, tunnelName, nameArg, noCacheCliAuth,
               keepAliveElapsed>>
resolverVars == <<request, body, resolved>>
streamVars == <<written, channel, delivered, log>>
provisionVars == <<runnerPlatform, runnerArch, githubActor, stableVersion,
                   toolCache, cliPath, downloads, inputVars, resolverVars,
                   streamVars>>
superVars == <<connected, connectionTimer, sessionTimer, sessionArmed, child,
               markerLines, events, settled, reason>>

----------------------------------------------------------------------------
(* Bounds of the model *)

MaxChunkLen == 3
MaxMarkerLines == 2
MaxInvocations == 2
MaxNameLen == 22
MaxArrayLen == 2
MaxStreamLen == 3

(* Inputs *)

Platforms == {"linux", "darwin", "win32", "freebsd"}
Archs == {"x64", "arm64"}
Actors == {"", "octocat"}
Versions == {"1.2.3", "1.2.4"}
Chars == {"m", "k", "\n", "\r"}
ExitCodes == {<<>>, <<0>>, <<1>>, <<137>>}   \* <<>> is a null exit code
KillResults == {"delivered", "ignored", "throws"}

Chunks == UNION {[1..n -> Chars] : n \in 1..MaxChunkLen}

----------------------------------------------------------------------------
(* Paths and messages *)

cliToolCacheName == "vscode-cli"

NoPath == <<>>
join(p, name) == Append(p, name)
ToolDir(name, version) == <<"toolcache", name, version>>

cliName == IF runnerPlatform = "win32" THEN "code.exe" ELSE "code"

NoError == [text |-> "", code |-> <<>>]
Error(text) == [text |-> text, code |-> <<>>]
ExitError(code) == [text |-> "VS Code tunnel exited with code", code |-> code]

(* One external call: the function, its arguments and how it returned *)
Call(name, arg, result) == [fn |-> name, arg |-> arg, result |-> result]

(* An input string as far as trim() and length see it: leading white space,
   the text from the first to the last other character, trailing white space *)
Text(lead, core, trail) == [lead |-> lead, core |-> core, trail |-> trail]
Str(core) == Text(0, core, 0)
Empty == Str(<<>>)
NoName == Empty
length(t) == t.lead + Len(t.core) + t.trail
trim(t) == Str(t.core)

(* A JSON value of the releases API: its type, its version and name members
   (Empty when absent), its text when it is a string, its elements when it is
   an array; json is FALSE for a body JSON.parse rejects, whose raw text is in
   text *)
Json(type, version, name, text, elems) ==
    [json |-> TRUE, type |-> type, version |-> version, name |-> name,
     text |-> text, elems |-> elems]
Raw(text) ==
    [json |-> FALSE, type |-> "", version |-> Empty, name |-> Empty,
     text |-> text, elems |-> <<>>]
NoBody == Raw(Empty)

Event(name, code) == [ev |-> name, code |-> code]

(* getInput(name): the value of the input with surrounding white space
   removed *)
getInput(raw) == trim(raw)

MaxTunnelNameLength == 20

(* Raw values of the input tunnel-name *)
NameLengths == {0, 1} \cup (19..MaxNameLen)
RawNames == {Text(lead, [i \in 1..n |-> "a"], trail) :
                lead \in 0..1, n \in NameLengths, trail \in 0..1}

(* Variant: the handler reports the failure and lets the process end normally *)
Fatal_noExit(err) ==
    /\ failedMsg' = err
    /\ exitStatus' = <<0>>
    /\ pc' = "done"

(* catch (error) { setFailed(...); exit(1); } *)
Fatal(err) ==
    /\ failedMsg' = err
    /\ exitStatus' = <<1>>
    /\ pc' = "done"

----------------------------------------------------------------------------
(* Platform Resolver: the switch on runnerPlatform *)

SupportedPlatforms == {"linux", "darwin", "win32"}

downloadUrl ==
    CASE runnerPlatform = "linux" -> "os=cli-alpine-x64"
      [] runnerPlatform = "darwin" -> "os=cli-darwin-x64"
      [] runnerPlatform = "win32" -> "os=cli-win32-x64"
      [] OTHER -> ""

downloadFileName ==
    CASE runnerPlatform = "linux" -> "code-cli.tar.gz"
      [] runnerPlatform = "darwin" -> "code-cli.zip"
      [] runnerPlatform = "win32" -> "code-cli.zip"
      [] OTHER -> ""

extractPath == <<"home", cliToolCacheName>>

(* find(cliToolCacheName, stableVersion): the tool directory, or '' *)
find(name, version) ==
    IF <<name, version>> \in toolCache THEN ToolDir(name, version) ELSE NoPath

(* if (runnerPlatform === 'win32') extractZip else extractTar *)
extractCall ==
    IF runnerPlatform = "win32" THEN "extractZip" ELSE "extractTar"

----------------------------------------------------------------------------
(* The runner: platform, architecture, invoking identity, tool cache *)
Runner ==
    /\ runnerPlatform \in Platforms
    /\ runnerArch \in Archs
    /\ githubActor \in Actors
    /\ toolCache \in SUBSET ({cliToolCacheName} \X Versions)
    /\ invocation = 1
    /\ downloads = [v \in Versions |-> 0]

(* The locals of main() and the process before main() has done anything *)
RunStart ==
    /\ stableVersion = ""
    /\ cliPath = NoPath
    /\ calls = <<>>
    /\ nameArg = <<>>
    /\ connected = FALSE
    /\ connectionTimer = "null"
    /\ sessionTimer = "null"
    /\ sessionArmed = 0
    /\ child = "none"
    /\ markerLines = 0
    /\ events = <<>>
    /\ settled = "none"
    /\ reason = NoError
    /\ failedMsg = NoError
    /\ exitStatus = <<>>
    /\ keepAliveElapsed = FALSE

ResolverIdle ==
    /\ request = "idle"
    /\ body = NoBody
    /\ resolved = <<>>

(* No stream of the child is observed *)
StreamIdle ==
    /\ written = <<>>
    /\ channel = "stdout"
    /\ delivered = 0
    /\ log = <<>>

Init ==
    /\ pc = "start"
    /\ Runner
    /\ RunStart
    /\ ResolverIdle
    /\ StreamIdle
    /\ tunnelName = NoName
    /\ noCacheCliAuth = FALSE

(* Architecture check and platform switch *)
ResolvePlatform ==
    /\ pc = "start"
    /\ IF runnerArch # "x64"
         THEN Fatal(Error("Unsupported architecture"))
         ELSE IF runnerPlatform \notin SupportedPlatforms
           THEN Fatal(Error("Unsupported platform"))
           ELSE /\ pc' = "version"
                /\ UNCHANGED <<failedMsg, exitStatus>>
    /\ UNCHANGED <<provisionVars, calls, superVars>>

(* await fetchStableReleaseVersion(releasesApi); throw on an empty version;
   otherwise create the extraction directory unless it exists *)
FetchVersion(v) ==
    /\ pc = "version"
    /\ stableVersion' = v
    /\ calls' = IF v = ""
                  THEN Append(calls,
                              Call("https.get", <<"releases/stable">>, "empty"))
                  ELSE calls \o
                         <<Call("https.get", <<"releases/stable">>, "version"),
                           Call("mkdirSync", extractPath, "ifAbsent")>>
    /\ IF v = ""
         THEN Fatal(Error("Failed to determine stable VS Code version"))
         ELSE /\ pc' = "toolcache"
              /\ UNCHANGED <<failedMsg, exitStatus>>
    /\ UNCHANGED <<runnerPlatform, runnerArch, githubActor, toolCache, cliPath,
                   downloads, inputVars, resolverVars, streamVars, superVars>>

(* Variant: the result of the lookup is not used *)
CheckToolCache_ignoresFound(throws) ==
    /\ pc = "toolcache"
    /\ calls' = Append(calls,
            Call("find", <<cliToolCacheName, stableVersion>>,
                 IF throws THEN "throws"
                 ELSE IF <<cliToolCacheName, stableVersion>> \in toolCache
                   THEN "hit" ELSE "miss"))
    /\ cliPath' = NoPath
    /\ pc' = "download"
    /\ UNCHANGED <<runnerPlatform, runnerArch, githubActor, stableVersion,
                   toolCache, downloads, inputVars, resolverVars, streamVars,
                   superVars,
                   failedMsg, exitStatus>>

(* try { found = find(...); if (found) cliPath = found } catch { warning } *)
CheckToolCache(throws) ==
    /\ pc = "toolcache"
    /\ calls' = Append(calls,
            Call("find", <<cliToolCacheName, stableVersion>>,
                 IF throws THEN "throws"
                 ELSE IF <<cliToolCacheName, stableVersion>> \in toolCache
                   THEN "hit" ELSE "miss"))
    /\ cliPath' = IF throws THEN NoPath
                  ELSE find(cliToolCacheName, stableVersion)
    /\ pc' = IF cliPath' = NoPath THEN "download" ELSE "datacache"
    /\ UNCHANGED <<runnerPlatform, runnerArch, githubActor, stableVersion,
                   toolCache, downloads, inputVars, resolverVars, streamVars,
                   superVars,
                   failedMsg, exitStatus>>

(* await downloadTool(downloadUrl, join(extractPath, downloadFileName)) *)
Download(ok) ==
    /\ pc = "download"
    /\ calls' = Append(calls, Call("downloadTool",
                                   <<downloadUrl, downloadFileName>>,
                                   IF ok THEN "ok" ELSE "throws"))
    /\ downloads' = IF ok THEN [downloads EXCEPT ![stableVersion] = @ + 1]
                    ELSE downloads
    /\ IF ok
         THEN /\ pc' = "extract"
              /\ UNCHANGED <<failedMsg, exitStatus>>
         ELSE Fatal(Error("download failed"))
    /\ UNCHANGED <<runnerPlatform, runnerArch, githubActor, stableVersion,
                   toolCache, cliPath, inputVars, resolverVars, streamVars,
                   superVars>>

(* await extractZip(...) or await extractTar(...) *)
Extract(ok) ==
    /\ pc = "extract"
    /\ calls' = Append(calls, Call(extractCall, <<downloadFileName>>,
                                   IF ok THEN "ok" ELSE "throws"))
    /\ IF ok
         THEN /\ pc' = "verify"
              /\ UNCHANGED <<failedMsg, exitStatus>>
         ELSE Fatal(Error("extraction failed"))
    /\ UNCHANGED <<provisionVars, superVars>>

(* existsSync(extractCliPath) check, then chmodSync unless win32 *)
Verify(exists) ==
    /\ pc = "verify"
    /\ IF ~exists
         THEN /\ calls' = Append(calls,
                               Call("existsSync", <<cliName>>, "false"))
              /\ Fatal(Error("VS Code CLI not found at expected path"))
         ELSE /\ calls' =
                   LET checked == Append(calls,
                                   Call("existsSync", <<cliName>>, "true"))
                   IN  IF runnerPlatform # "win32"
                         THEN Append(checked,
                                     Call("chmodSync", <<cliName>>, "ok"))
                         ELSE checked
              /\ pc' = "store"
              /\ UNCHANGED <<failedMsg, exitStatus>>
    /\ UNCHANGED <<provisionVars, superVars>>

(* cacheDir = await cacheFile(extractCliPath, cliName, name, version);
   cliPath = join(cacheDir, cliName) *)
Store(ok) ==
    /\ pc = "store"
    /\ calls' = Append(calls, Call("cacheFile",
                                   <<cliToolCacheName, stableVersion>>,
                                   IF ok THEN "ok" ELSE "throws"))
    /\ IF ok
         THEN /\ toolCache' = toolCache \cup
                                {<<cliToolCacheName, stableVersion>>}
              /\ cliPath' = join(ToolDir(cliToolCacheName, stableVersion),
                                 cliName)
              /\ pc' = "datacache"
              /\ UNCHANGED <<failedMsg, exitStatus>>
         ELSE /\ Fatal(Error("cacheFile failed"))
              /\ UNCHANGED <<toolCache, cliPath>>
    /\ UNCHANGED <<runnerPlatform, runnerArch, githubActor, stableVersion,
                   downloads, inputVars, resolverVars, streamVars, superVars>>

(* if (githubActor) { await restoreCache([cliDataDir], dataCacheName) } *)
RestoreCache(result) ==
    /\ pc = "datacache"
    /\ IF githubActor = ""
         THEN /\ pc' = "spawn"
              /\ UNCHANGED <<calls, failedMsg, exitStatus>>
         ELSE /\ calls' = Append(calls,
                     Call("restoreCache", <<"vscode-cli-data", githubActor>>,
                          result))
              /\ IF result = "throws"
                   THEN Fatal(Error("restoreCache failed"))
                   ELSE /\ pc' = "spawn"
                        /\ UNCHANGED <<failedMsg, exitStatus>>
    /\ UNCHANGED <<provisionVars, superVars>>

----------------------------------------------------------------------------
(* Tunnel Supervisor *)

connectionIndicator == <<"m", "k">>

(* line.includes(connectionIndicator) *)
includes(line, needle) ==
    \E i \in 0..(Len(line) - Len(needle)) :
        \A j \in 1..Len(needle) : line[i + j] = needle[j]

(* text.split(/\r?\n/): the pieces between the separators, in order *)
RECURSIVE splitFrom(_, _, _, _)
splitFrom(text, i, cur, acc) ==
    IF i > Len(text)
      THEN Append(acc, cur)
      ELSE IF text[i] = "\n"
        THEN LET piece == IF Len(cur) > 0 /\ cur[Len(cur)] = "\r"
                            THEN SubSeq(cur, 1, Len(cur) - 1)
                            ELSE cur
             IN  splitFrom(text, i + 1, <<>>, Append(acc, piece))
        ELSE splitFrom(text, i + 1, Append(cur, text[i]), acc)

split(text) == splitFrom(text, 1, <<>>, <<>>)

nonEmpty(l) == Len(l) > 0

hasIndicator(l) == includes(l, connectionIndicator)

(* text.split(/\r?\n/).filter(l => l.length > 0) *)
chunkLines(chunk) == SelectSeq(split(chunk), nonEmpty)

(* The timer state the stdout handler reads and writes *)
TimerState == [connected |-> connected, connectionTimer |-> connectionTimer,
               sessionTimer |-> sessionTimer, sessionArmed |-> sessionArmed]

(* Variants of the loop body: the connection timer is left armed; the session
   timer is not armed; the connected flag is not consulted *)
onStdoutLine_noClear(s, line) ==
    IF ~s.connected /\ includes(line, connectionIndicator)
      THEN [s EXCEPT !.connected = TRUE,
                     !.sessionTimer = "pending",
                     !.sessionArmed = s.sessionArmed + 1]
      ELSE s

onStdoutLine_noSession(s, line) ==
    IF ~s.connected /\ includes(line, connectionIndicator)
      THEN [s EXCEPT !.connected = TRUE, !.connectionTimer = "null"]
      ELSE s

onStdoutLine_noGuard(s, line) ==
    IF includes(line, connectionIndicator)
      THEN [connected |-> TRUE,
            connectionTimer |-> "null",
            sessionTimer |-> "pending",
            sessionArmed |-> s.sessionArmed + 1]
      ELSE s

(* Body of the for loop of the stdout handler, for one line *)
onStdoutLine(s, line) ==
    IF ~s.connected /\ includes(line, connectionIndicator)
      THEN [connected |-> TRUE,
            connectionTimer |-> "null",
            sessionTimer |-> "pending",
            sessionArmed |-> s.sessionArmed + 1]
      ELSE s

RECURSIVE forEachLine(_, _, _)
forEachLine(s, lines, i) ==
    IF i > Len(lines) THEN s
    ELSE forEachLine(onStdoutLine(s, lines[i]), lines, i + 1)

(* try { child.kill(); } catch (_) {} : the child as seen after the request *)
kill(result) ==
    IF result = "delivered" /\ child = "running" THEN "signaled" ELSE child

(* Variant: an exception of child.kill() escapes the timer callback *)
afterKill_uncaught(result) == IF result = "throws" THEN "crashed" ELSE pc

(* Position of main() after a kill request with the given result: the
   try/catch around child.kill() keeps main() where it is *)
afterKill(result) == pc

(* Variant: the test of the connection timer callback is inverted *)
shouldKill_inverted == connected

(* if (!connected) in the connection timer callback *)
shouldKill == ~connected

(* Variant: cleanup forgets the session timer *)
cleanup_connectionOnly ==
    /\ connectionTimer' = "null"
    /\ UNCHANGED sessionTimer

(* const cleanup = () => { clear both timers } *)
cleanup ==
    /\ connectionTimer' = "null"
    /\ sessionTimer' = "null"

(* Variant: a later resolve() or reject() overrides the outcome *)
settle_lastWins(how, err) ==
    settled' = how /\ reason' = err

(* resolve() / reject(err): only the first settlement counts *)
settle(how, err) ==
    IF settled = "pending"
      THEN settled' = how /\ reason' = err
      ELSE UNCHANGED <<settled, reason>>

(* if (code && code !== 0) *)
truthy(code) == code # <<>> /\ code[1] # 0

cliDataDir == <<"home", "vscode-cli-data">>

(* if (tunnelName) { tunnelArgs.push('--name', tunnelName); } *)
tunnelArgsName == IF length(tunnelName) > 0 THEN <<tunnelName>> ELSE <<>>

(* spawn(cliPath, tunnelArgs, options) up to the await of the promise:
   handlers registered, connection timer armed *)
Spawn(ok) ==
    /\ pc = "spawn"
    /\ calls' = calls \o
                   <<Call("mkdirSync", cliDataDir, "ifAbsent"),
                     Call("spawn", cliPath, IF ok THEN "ok" ELSE "ENOENT")>>
    /\ nameArg' = tunnelArgsName
    /\ child' = IF ok THEN "running" ELSE "spawnfail"
    /\ connected' = FALSE
    /\ connectionTimer' = "pending"
    /\ sessionTimer' = "null"
    /\ settled' = "pending"
    /\ pc' = "wait"
    /\ UNCHANGED <<runnerPlatform, runnerArch, githubActor, stableVersion,
                   toolCache, cliPath, downloads, invocation, tunnelName,
                   noCacheCliAuth, keepAliveElapsed, resolverVars, streamVars,
                   sessionArmed, markerLines, events, reason, failedMsg,
                   exitStatus>>

(* child.stdout.on('data', ...) *)
StdoutData(chunk) ==
    /\ pc = "wait"
    /\ child \in {"running", "signaled"}
    /\ markerLines' = markerLines + Len(SelectSeq(chunkLines(chunk), hasIndicator))
    /\ markerLines' <= MaxMarkerLines
    /\ LET s == forEachLine(TimerState, chunkLines(chunk), 1)
       IN  /\ connected' = s.connected
           /\ connectionTimer' = s.connectionTimer
           /\ sessionTimer' = s.sessionTimer
           /\ sessionArmed' = s.sessionArmed
    /\ UNCHANGED <<pc, provisionVars, calls, child, events, settled, reason,
                   failedMsg, exitStatus>>

(* child.stderr.on('data', ...): error(line) for each line *)
StderrData(chunk) ==
    /\ pc = "wait"
    /\ child \in {"running", "signaled"}
    /\ UNCHANGED vars

(* Callback of connectionTimer.  The error of a failed spawn is emitted on the
   next tick, before any timer can run. *)
ConnectionTimerFire(result) ==
    /\ pc \in {"wait", "save"}
    /\ child # "spawnfail"
    /\ connectionTimer = "pending"
    /\ connectionTimer' = "fired"
    /\ IF shouldKill
         THEN /\ calls' = Append(calls, Call("kill", <<"Connection timeout">>,
                                            result))
              /\ child' = kill(result)
              /\ pc' = afterKill(result)
         ELSE UNCHANGED <<calls, child, pc>>
    /\ UNCHANGED <<provisionVars, connected, sessionTimer, sessionArmed,
                   markerLines, events, settled, reason, failedMsg,
                   exitStatus>>

(* Callback of sessionTimer *)
SessionTimerFire(result) ==
    /\ pc \in {"wait", "save"}
    /\ sessionTimer = "pending"
    /\ sessionTimer' = "fired"
    /\ calls' = Append(calls, Call("kill", <<"Session timeout">>, result))
    /\ child' = kill(result)
    /\ pc' = afterKill(result)
    /\ UNCHANGED <<provisionVars, connected, connectionTimer, sessionArmed,
                   markerLines, events, settled, reason, failedMsg,
                   exitStatus>>

(* child.on('error', err => { cleanup(); reject(err); }) *)
ChildError ==
    /\ pc = "wait"
    /\ child = "spawnfail"
    /\ child' = "errored"
    /\ events' = Append(events, Event("error", <<>>))
    /\ cleanup
    /\ settle("rejected", Error("spawn ENOENT"))
    /\ UNCHANGED <<pc, provisionVars, calls, connected, sessionArmed,
                   markerLines, failedMsg, exitStatus>>

(* child.on('close', code => { cleanup(); resolve or reject by code }) *)
ChildClose(code) ==
    /\ pc = "wait"
    /\ child \in {"running", "signaled", "errored"}
    /\ child' = "closed"
    /\ events' = Append(events, Event("close", code))
    /\ cleanup
    /\ IF truthy(code)
         THEN settle("rejected", ExitError(code))
         ELSE settle("resolved", NoError)
    /\ UNCHANGED <<pc, provisionVars, calls, connected, sessionArmed,
                   markerLines, failedMsg, exitStatus>>

(* Variant: the data directory is saved whatever the wait's outcome *)
MainResume_savesAlways ==
    /\ pc = "wait"
    /\ settled \in {"resolved", "rejected"}
    /\ IF githubActor # ""
         THEN /\ pc' = "save"
              /\ UNCHANGED <<failedMsg, exitStatus>>
         ELSE IF settled = "rejected"
           THEN Fatal(reason)
           ELSE /\ pc' = "done"
                /\ exitStatus' = <<0>>
                /\ UNCHANGED failedMsg
    /\ UNCHANGED <<provisionVars, calls, superVars>>

(* main() resumes after the await: the catch block on a rejection, else the
   saveCache block *)
MainResume ==
    /\ pc = "wait"
    /\ settled \in {"resolved", "rejected"}
    /\ IF settled = "rejected"
         THEN Fatal(reason)
         ELSE IF githubActor # ""
           THEN /\ pc' = "save"
                /\ UNCHANGED <<failedMsg, exitStatus>>
           ELSE /\ pc' = "done"
                /\ exitStatus' = <<0>>
                /\ UNCHANGED failedMsg
    /\ UNCHANGED <<provisionVars, calls, superVars>>

(* try { await saveCache([cliDataDir], dataCacheName) } catch { warning } *)
SaveCache(ok) ==
    /\ pc = "save"
    /\ calls' = Append(calls,
                       Call("saveCache", <<"vscode-cli-data", githubActor>>,
                            IF ok THEN "ok" ELSE "throws"))
    /\ pc' = "done"
    /\ exitStatus' = <<0>>
    /\ UNCHANGED <<provisionVars, superVars, failedMsg>>

----------------------------------------------------------------------------
Next ==
    \/ ResolvePlatform
    \/ \E v \in Versions \cup {""} : FetchVersion(v)
    \/ \E throws \in BOOLEAN : CheckToolCache(throws)
    \/ \E ok \in BOOLEAN : Download(ok)
    \/ \E ok \in BOOLEAN : Extract(ok)
    \/ \E exists \in BOOLEAN : Verify(exists)
    \/ \E ok \in BOOLEAN : Store(ok)
    \/ \E result \in {"hit", "miss", "throws"} : RestoreCache(result)
    \/ \E ok \in BOOLEAN : Spawn(ok)
    \/ \E chunk \in Chunks : StdoutData(chunk)
    \/ \E chunk \in Chunks : StderrData(chunk)
    \/ \E result \in KillResults : ConnectionTimerFire(result)
    \/ \E result \in KillResults : SessionTimerFire(result)
    \/ ChildError
    \/ \E code \in ExitCodes : ChildClose(code)
    \/ MainResume
    \/ \E ok \in BOOLEAN : SaveCache(ok)

Spec == Init /\ [][Next]_vars

(* A later run of main() on the same runner: the tool cache is kept, the
   state of the run starts afresh *)
NextInvocation ==
    /\ pc = "done"
    /\ invocation < MaxInvocations
    /\ invocation' = invocation + 1
    /\ pc' = "start"
    /\ stableVersion' = ""
    /\ cliPath' = NoPath
    /\ calls' = <<>>
    /\ connected' = FALSE
    /\ connectionTimer' = "null"
    /\ sessionTimer' = "null"
    /\ sessionArmed' = 0
    /\ child' = "none"
    /\ markerLines' = 0
    /\ events' = <<>>
    /\ settled' = "none"
    /\ reason' = NoError
    /\ failedMsg' = NoError
    /\ exitStatus' = <<>>
    /\ nameArg' = <<>>
    /\ keepAliveElapsed' = FALSE
    /\ UNCHANGED <<runnerPlatform, runnerArch, githubActor, toolCache,
                   downloads, tunnelName, noCacheCliAuth, resolverVars,
                   streamVars>>

(* Runs of main() by one actor, one after the other, on an x64 linux runner
   whose tool cache starts empty *)
SeqInit ==
    /\ Init
    /\ runnerPlatform = "linux"
    /\ runnerArch = "x64"
    /\ githubActor = "octocat"
    /\ toolCache = {}

SeqNext == Next \/ NextInvocation

SeqSpec == SeqInit /\ [][SeqNext]_vars

(* Timers that are due fire, queued events are delivered, a signaled child
   closes, and main() runs when its await settles.  Nothing forces a running
   child to exit or to write output. *)
Fairness ==
    /\ WF_vars(\E result \in KillResults : ConnectionTimerFire(result))
    /\ WF_vars(\E result \in KillResults : SessionTimerFire(result))
    /\ WF_vars(ChildError)
    /\ WF_vars(child = "signaled" /\ \E code \in ExitCodes : ChildClose(code))
    /\ WF_vars(MainResume)
    /\ WF_vars(\E ok \in BOOLEAN : SaveCache(ok))

FairSpec == Spec /\ Fairness

----------------------------------------------------------------------------
(* The variant with keep-alive-duration (src/src/action.ts): the tunnel name
   is validated, the child inherits stdio, there are no timers and no
   data-directory cache; platform resolution, version resolution and the
   Binary Provisioner are the same code as above. *)

SimpleInit ==
    /\ pc = "validate"
    /\ Runner
    /\ RunStart
    /\ ResolverIdle
    /\ StreamIdle
    /\ tunnelName \in {getInput(raw) : raw \in RawNames}
    /\ noCacheCliAuth = FALSE

(* Variant: the length of the name is not checked *)
nameTooLong_unchecked == FALSE

(* if (tunnelName && tunnelName.trim().length > 20) *)
nameTooLong ==
    length(tunnelName) > 0 /\ length(trim(tunnelName)) > MaxTunnelNameLength

(* validate tunnel name length *)
ValidateName ==
    /\ pc = "validate"
    /\ IF nameTooLong
         THEN Fatal(Error("Tunnel name must be 20 characters or fewer."))
         ELSE /\ pc' = "start"
              /\ UNCHANGED <<failedMsg, exitStatus>>
    /\ UNCHANGED <<provisionVars, calls, superVars>>

(* mkdirSync(cliDataDir), spawn(cliPath, tunnelArgs, { stdio: 'inherit' }) up
   to the await of the promise *)
SimpleSpawn(ok) ==
    /\ pc = "datacache"
    /\ calls' = calls \o
                   <<Call("mkdirSync", cliDataDir, "ifAbsent"),
                     Call("spawn", cliPath, IF ok THEN "ok" ELSE "ENOENT")>>
    /\ nameArg' = tunnelArgsName
    /\ child' = IF ok THEN "running" ELSE "spawnfail"
    /\ settled' = "pending"
    /\ pc' = "wait"
    /\ UNCHANGED <<runnerPlatform, runnerArch, githubActor, stableVersion,
                   toolCache, cliPath, downloads, invocation, tunnelName,
                   noCacheCliAuth, keepAliveElapsed, resolverVars, streamVars,
                   connected,
                   connectionTimer, sessionTimer, sessionArmed, markerLines,
                   events, reason, failedMsg, exitStatus>>

(* keep-alive-duration seconds pass; keepAliveDuration is only printed *)
KeepAliveElapses ==
    /\ pc = "wait"
    /\ ~keepAliveElapsed
    /\ keepAliveElapsed' = TRUE
    /\ UNCHANGED <<pc, runnerPlatform, runnerArch, githubActor, stableVersion,
                   toolCache, cliPath, downloads, invocation, tunnelName,
                   nameArg, noCacheCliAuth, resolverVars, streamVars,
                   calls, superVars,
                   failedMsg, exitStatus>>

(* child.on('error', err => reject(err)) *)
SimpleChildError ==
    /\ pc = "wait"
    /\ child = "spawnfail"
    /\ child' = "errored"
    /\ events' = Append(events, Event("error", <<>>))
    /\ settle("rejected", Error("spawn ENOENT"))
    /\ UNCHANGED <<pc, provisionVars, calls, connected, connectionTimer,
                   sessionTimer, sessionArmed, markerLines, failedMsg,
                   exitStatus>>

(* child.on('close', code => { info(...); resolve(); }) *)
SimpleChildClose(code) ==
    /\ pc = "wait"
    /\ child \in {"running", "errored"}
    /\ child' = "closed"
    /\ events' = Append(events, Event("close", code))
    /\ settle("resolved", NoError)
    /\ UNCHANGED <<pc, provisionVars, calls, connected, connectionTimer,
                   sessionTimer, sessionArmed, markerLines, failedMsg,
                   exitStatus>>

(* main() resumes after the await: 'Keep-alive duration completed', or the
   catch block *)
SimpleMainResume ==
    /\ pc = "wait"
    /\ settled \in {"resolved", "rejected"}
    /\ IF settled = "rejected"
         THEN Fatal(reason)
         ELSE /\ pc' = "done"
              /\ exitStatus' = <<0>>
              /\ UNCHANGED failedMsg
    /\ UNCHANGED <<provisionVars, calls, superVars>>

SimpleNext ==
    \/ ValidateName
    \/ ResolvePlatform
    \/ \E v \in Versions \cup {""} : FetchVersion(v)
    \/ \E throws \in BOOLEAN : CheckToolCache(throws)
    \/ \E ok \in BOOLEAN : Download(ok)
    \/ \E ok \in BOOLEAN : Extract(ok)
    \/ \E exists \in BOOLEAN : Verify(exists)
    \/ \E ok \in BOOLEAN : Store(ok)
    \/ \E ok \in BOOLEAN : SimpleSpawn(ok)
    \/ KeepAliveElapses
    \/ SimpleChildError
    \/ \E code \in ExitCodes : SimpleChildClose(code)
    \/ SimpleMainResume

SimpleSpec == SimpleInit /\ [][SimpleNext]_vars

(* Time passes, queued events are delivered and main() runs when its await
   settles.  Nothing forces a running child to exit. *)
SimpleFairness ==
    /\ WF_vars(KeepAliveElapses)
    /\ WF_vars(SimpleChildError)
    /\ WF_vars(SimpleMainResume)

FairSimpleSpec == SimpleSpec /\ SimpleFairness

----------------------------------------------------------------------------
(* The data handlers on a stream the child writes: the text arrives in
   chunks whose boundaries the child does not control *)

(* Characters of the child's output: "o" and "g" stand for the instruction
   prefixes 'Open this link' and 'To grant access' *)
StreamChars == Chars \cup {"o", "g"}
Streams == UNION {[1..n -> StreamChars] : n \in 1..MaxStreamLen}

OpenThisLink == <<"o">>
ToGrantAccess == <<"g">>
ConnectionDetected == <<"Connection detected; switching to session timeout">>

(* line.startsWith(prefix) *)
startsWith(line, prefix) ==
    /\ Len(line) >= Len(prefix)
    /\ \A j \in 1..Len(prefix) : line[j] = prefix[j]

Entry(level, line) == [level |-> level, line |-> line]

(* Variant: the instruction prefixes are looked for anywhere in the line *)
onStdoutLineLog_anywhere(s, line) ==
    <<Entry("debug", line)>>
    \o (IF includes(line, OpenThisLink) \/ includes(line, ToGrantAccess)
          THEN <<Entry("info", line)>> ELSE <<>>)
    \o (IF ~s.connected /\ includes(line, connectionIndicator)
          THEN <<Entry("debug", ConnectionDetected)>> ELSE <<>>)

(* What the body of the for loop of the stdout handler emits for one line *)
onStdoutLineLog(s, line) ==
    <<Entry("debug", line)>>
    \o (IF startsWith(line, OpenThisLink) \/ startsWith(line, ToGrantAccess)
          THEN <<Entry("info", line)>> ELSE <<>>)
    \o (IF ~s.connected /\ includes(line, connectionIndicator)
          THEN <<Entry("debug", ConnectionDetected)>> ELSE <<>>)

RECURSIVE stdoutLog(_, _, _)
stdoutLog(s, lines, i) ==
    IF i > Len(lines) THEN <<>>
    ELSE onStdoutLineLog(s, lines[i])
         \o stdoutLog(onStdoutLine(s, lines[i]), lines, i + 1)

(* for (const line of lines) { error(line); } *)
stderrLog(lines) == [i \in 1..Len(lines) |-> Entry("error", lines[i])]

(* The next n characters of the stream, as one chunk *)
nextChunk(n) == SubSeq(written, delivered + 1, delivered + n)

(* main() about to spawn the cached executable on an x64 linux runner without
   GITHUB_ACTOR; the child will write the text written to one of its streams *)
StreamInit ==
    /\ pc = "spawn"
    /\ Runner
    /\ runnerPlatform = "linux"
    /\ runnerArch = "x64"
    /\ githubActor = ""
    /\ toolCache = {<<cliToolCacheName, "1.2.3">>}
    /\ stableVersion = "1.2.3"
    /\ cliPath = ToolDir(cliToolCacheName, "1.2.3")
    /\ calls = <<Call("https.get", <<"releases/stable">>, "version"),
                 Call("mkdirSync", extractPath, "ifAbsent"),
                 Call("find", <<cliToolCacheName, "1.2.3">>, "hit")>>
    /\ nameArg = <<>>
    /\ connected = FALSE
    /\ connectionTimer = "null"
    /\ sessionTimer = "null"
    /\ sessionArmed = 0
    /\ child = "none"
    /\ markerLines = 0
    /\ events = <<>>
    /\ settled = "none"
    /\ reason = NoError
    /\ failedMsg = NoError
    /\ exitStatus = <<>>
    /\ keepAliveElapsed = FALSE
    /\ ResolverIdle
    /\ tunnelName = NoName
    /\ noCacheCliAuth = FALSE
    /\ written \in Streams
    /\ channel \in {"stdout", "stderr"}
    /\ delivered = 0
    /\ log = <<>>

(* child.stdout.on('data', ...) on the next n characters of the stream *)
StreamStdout(n) ==
    /\ pc = "wait"
    /\ child = "running"
    /\ channel = "stdout"
    /\ delivered + n <= Len(written)
    /\ delivered' = delivered + n
    /\ LET lines == chunkLines(nextChunk(n))
           s == forEachLine(TimerState, lines, 1)
       IN  /\ markerLines' = markerLines + Len(SelectSeq(lines, hasIndicator))
           /\ connected' = s.connected
           /\ connectionTimer' = s.connectionTimer
           /\ sessionTimer' = s.sessionTimer
           /\ sessionArmed' = s.sessionArmed
           /\ log' = log \o stdoutLog(TimerState, lines, 1)
    /\ UNCHANGED <<pc, runnerPlatform, runnerArch, githubActor, stableVersion,
                   toolCache, cliPath, downloads, inputVars, resolverVars,
                   written, channel, calls, child, events, settled, reason,
                   failedMsg, exitStatus>>

(* child.stderr.on('data', ...) on the next n characters of the stream *)
StreamStderr(n) ==
    /\ pc = "wait"
    /\ child = "running"
    /\ channel = "stderr"
    /\ delivered + n <= Len(written)
    /\ delivered' = delivered + n
    /\ log' = log \o stderrLog(chunkLines(nextChunk(n)))
    /\ UNCHANGED <<pc, runnerPlatform, runnerArch, githubActor, stableVersion,
                   toolCache, cliPath, downloads, inputVars, resolverVars,
                   written, channel, calls, superVars, failedMsg, exitStatus>>

StreamNext ==
    \/ \E ok \in BOOLEAN : Spawn(ok)
    \/ \E n \in 1..MaxChunkLen : StreamStdout(n)
    \/ \E n \in 1..MaxChunkLen : StreamStderr(n)

StreamSpec == StreamInit /\ [][StreamNext]_vars

----------------------------------------------------------------------------
(* A run whose workflow sets the input no-cache-cli-auth to true *)

NoCacheInit ==
    /\ pc = "start"
    /\ Runner
    /\ RunStart
    /\ ResolverIdle
    /\ StreamIdle
    /\ tunnelName = NoName
    /\ noCacheCliAuth = TRUE

SpecNoCache == NoCacheInit /\ [][Next]_vars

----------------------------------------------------------------------------
(* Version Resolver: fetchStableReleaseVersion *)

VersionTexts == {Str(<<v>>) : v \in Versions}
Fields == {Empty} \cup VersionTexts

JsonObjects == {Json("object", v, n, Empty, <<>>) : v \in Fields, n \in Fields}
JsonStrings == {Json("string", Empty, Empty, t, <<>>) : t \in Fields}
JsonNumbers == {Json("number", Empty, Empty, Str(<<d>>), <<>>) : d \in {"0", "7"}}
JsonNull == Json("null", Empty, Empty, Empty, <<>>)
JsonElements == JsonObjects \cup JsonStrings \cup JsonNumbers \cup {JsonNull}
JsonArrays ==
    {Json("array", Empty, Empty, Empty, e) :
        e \in UNION {[1..n -> JsonElements] : n \in 0..MaxArrayLen}}
RawBodies ==
    {Raw(Text(lead, core, trail)) :
        lead \in 0..1, core \in {<<>>, <<"1.2.3">>}, trail \in 0..1}
Bodies == JsonElements \cup JsonArrays \cup RawBodies

(* Truthiness of a parsed value *)
truthyValue(j) ==
    CASE j.type \in {"object", "array"} -> TRUE
      [] j.type = "string" -> length(j.text) > 0
      [] j.type = "number" -> j.text # Str(<<"0">>)
      [] OTHER -> FALSE

(* String(first) *)
String(j) ==
    CASE j.type = "object" -> Str(<<"[object Object]">>)
      [] j.type \in {"string", "number"} -> j.text
      [] j.type = "null" -> Str(<<"null">>)
      [] OTHER -> Empty

(* a || b for strings *)
or(a, b) == IF length(a) > 0 THEN a ELSE b

(* Variant: the name member is preferred to the version member *)
parseVersion_nameFirst(b) ==
    IF ~b.json THEN trim(b.text)
    ELSE IF b.type = "array" /\ Len(b.elems) > 0
      THEN LET first == b.elems[1]
           IN  IF truthyValue(first)
                 THEN or(first.name, or(first.version, String(first)))
                 ELSE Empty
    ELSE IF b.type \in {"object", "array"}
      THEN or(b.name, or(b.version, Empty))
    ELSE IF b.type = "string" THEN b.text
    ELSE Empty

(* The value the 'end' handler resolves with, for a body *)
parseVersion(b) ==
    IF ~b.json THEN trim(b.text)
    ELSE IF b.type = "array" /\ Len(b.elems) > 0
      THEN LET first == b.elems[1]
           IN  IF truthyValue(first)
                 THEN or(first.version, or(first.name, String(first)))
                 ELSE Empty
    ELSE IF b.type \in {"object", "array"}
      THEN or(b.version, or(b.name, Empty))
    ELSE IF b.type = "string" THEN b.text
    ELSE Empty

(* resolve(value): only the first call settles the promise *)
resolve(value) ==
    resolved' = IF resolved = <<>> THEN <<value>> ELSE resolved

nonResolverVars ==
    <<pc, runnerPlatform, runnerArch, githubActor, stableVersion, toolCache,
      cliPath, downloads, inputVars, calls, superVars, failedMsg, exitStatus,
      streamVars>>

(* try { https.get(url, callback).on('error', ...) } catch { resolve('') } *)
HttpsGet(throws) ==
    /\ pc = "version"
    /\ request = "idle"
    /\ IF throws
         THEN request' = "threw" /\ resolve(Empty)
         ELSE request' = "sent" /\ UNCHANGED resolved
    /\ UNCHANGED <<body, nonResolverVars>>

(* .on('error', () => resolve('')) *)
RequestError ==
    /\ request \in {"sent", "responding", "ended"}
    /\ request' = IF request = "ended" THEN "ended" ELSE "failed"
    /\ resolve(Empty)
    /\ UNCHANGED <<body, nonResolverVars>>

(* (res) => { chunks = []; res.on('data', ...); res.on('end', ...) } *)
Response ==
    /\ request = "sent"
    /\ request' = "responding"
    /\ UNCHANGED <<body, resolved, nonResolverVars>>

(* res.on('data', (d) => chunks.push(d)): the body has arrived *)
ResponseData(b) ==
    /\ request = "responding"
    /\ body = NoBody
    /\ body' = b
    /\ UNCHANGED <<request, resolved, nonResolverVars>>

(* res.on('end', ...): parse the body and resolve; resolve('') when the
   handler throws *)
ResponseEnd(throws) ==
    /\ request = "responding"
    /\ request' = IF throws THEN "parsefailed" ELSE "ended"
    /\ resolve(IF throws THEN Empty ELSE parseVersion(body))
    /\ UNCHANGED <<body, nonResolverVars>>

(* The connection closes before the body is complete: the response emits
   'aborted' and 'close', for which nothing is registered *)
ResponseAborted ==
    /\ request = "responding"
    /\ request' = "aborted"
    /\ UNCHANGED <<body, resolved, nonResolverVars>>

ResolverInit ==
    /\ pc = "version"
    /\ Runner
    /\ runnerPlatform = "linux"
    /\ runnerArch = "x64"
    /\ githubActor = ""
    /\ toolCache = {}
    /\ RunStart
    /\ ResolverIdle
    /\ StreamIdle
    /\ tunnelName = NoName
    /\ noCacheCliAuth = FALSE

ResolverNext ==
    \/ \E throws \in BOOLEAN : HttpsGet(throws)
    \/ RequestError
    \/ Response
    \/ \E b \in Bodies : ResponseData(b)
    \/ \E throws \in BOOLEAN : ResponseEnd(throws)
    \/ ResponseAborted

ResolverSpec == ResolverInit /\ [][ResolverNext]_vars

----------------------------------------------------------------------------
(* Vocabulary of the properties *)

isKill(c) == c.fn = "kill"
KillCalls == SelectSeq(calls, isKill)

TimeoutTexts == {"Connection timeout", "Session timeout"}

Spawned == child # "none"
Settled == settled \in {"resolved", "rejected"}
PendingTimers ==
    (IF connectionTimer = "pending" THEN 1 ELSE 0)
    + (IF sessionTimer = "pending" THEN 1 ELSE 0)

(* The step is a connection-timer callback that found connected false *)
ConnectionTimeoutStep ==
    /\ connectionTimer = "pending"
    /\ connectionTimer' = "fired"
    /\ ~connected

(* The step appends a kill request to the calls *)
KillStep ==
    /\ Len(calls') = Len(calls) + 1
    /\ calls'[Len(calls')].fn = "kill"

----------------------------------------------------------------------------
(* C1: whenever a timer fired and the kill was requested, the run ends as a
   reported failure (setFailed, exit status 1) whose message names the
   timeout, however the killed child closes. *)
C1_TimeoutEndsAsReportedFailure ==
    (pc = "done" /\ KillCalls # <<>>) =>
        /\ exitStatus = <<1>>
        /\ failedMsg.text \in TimeoutTexts

(* C2: when the connection timer fires and no marker line has been seen, a
   kill request is sent; whatever the request does (even throwing), the
   termination promise stays pending and main() keeps waiting, with nothing
   reported.  While no marker line was seen and nothing settled, the
   connection timer is still armed or has fired. *)
C2_ConnectionTimeoutKills ==
    /\ []((pc = "wait" /\ ~connected /\ settled = "pending")
            => connectionTimer \in {"pending", "fired"})
    /\ [][ConnectionTimeoutStep =>
            /\ KillStep
            /\ calls'[Len(calls')].arg = <<"Connection timeout">>
            /\ pc' = "wait"
            /\ UNCHANGED <<settled, reason, failedMsg, exitStatus, events>>]_vars

C2_Witness ==
    /\ KillCalls # <<>>
    /\ KillCalls[1].arg = <<"Connection timeout">>
    /\ KillCalls[1].result = "throws"
    /\ pc = "wait"
    /\ settled = "pending"

(* C3: the step that makes the supervisor Connected cancels the connection
   timer and arms the session timer; once Connected the connection timer is
   never pending again and every kill request comes from the session timer. *)
C3_OnlySessionTimerKillsOnceConnected ==
    /\ [][(~connected /\ connected') =>
            (connectionTimer' = "null" /\ sessionTimer' = "pending")]_vars
    /\ [](connected => connectionTimer # "pending")
    /\ [][(connected /\ KillStep) =>
            calls'[Len(calls')].arg = <<"Session timeout">>]_vars

C3_Witness ==
    /\ connected
    /\ KillCalls # <<>>
    /\ KillCalls[Len(KillCalls)].arg = <<"Session timeout">>
    /\ connectionTimer = "null"

(* C4: the outcome is decided by the first close or error event: close with
   code 0 or null resolves, close with another code N rejects with a message
   carrying N, error rejects with the underlying error; later events change
   nothing, and main() reports exactly that outcome. *)
C4_FirstEventDecides ==
    /\ (Spawned /\ events = <<>>) => settled = "pending"
    /\ events # <<>> =>
         LET e == events[1] IN
         /\ (e.ev = "error") =>
               (settled = "rejected" /\ reason = Error("spawn ENOENT"))
         /\ (e.ev = "close" /\ truthy(e.code)) =>
               (settled = "rejected" /\ reason = ExitError(e.code)
                  /\ reason.code = e.code)
         /\ (e.ev = "close" /\ ~truthy(e.code)) =>
               (settled = "resolved" /\ reason = NoError)
    /\ (pc = "done" /\ settled = "rejected") =>
         (exitStatus = <<1>> /\ failedMsg = reason)
    /\ (pc = "done" /\ settled = "resolved") =>
         (exitStatus = <<0>> /\ failedMsg = NoError)

C4_Witness ==
    /\ Len(events) = 2
    /\ events[1].ev = "error"
    /\ events[2] = Event("close", <<0>>)
    /\ pc = "done"
    /\ exitStatus = <<1>>

(* C5: the connection timer and the session timer are never both pending *)
C5_NeverBothPending ==
    ~(connectionTimer = "pending" /\ sessionTimer = "pending")

C5_Witness ==
    /\ sessionTimer = "pending"
    /\ connectionTimer = "null"
    /\ connected
    /\ settled = "pending"

(* C6: after spawn exactly one timer is pending, except when the termination
   promise has settled or a timer has fired and the kill was requested; only
   then may both be absent, and never are both pending. *)
C6_ExactlyOneTimer ==
    Spawned =>
        \/ PendingTimers = 1
        \/ /\ PendingTimers = 0
           /\ \/ Settled
              \/ /\ "fired" \in {connectionTimer, sessionTimer}
                 /\ KillCalls # <<>>

C6_Witness ==
    /\ Spawned
    /\ PendingTimers = 0
    /\ settled = "pending"
    /\ connectionTimer = "fired"
    /\ KillCalls # <<>>

(* C7: once Connected, handling further stdout output (marker lines
   included) changes neither the connected flag nor a timer; the session
   timer is armed at most once per run. *)
C7_ConnectedIsIdempotent ==
    /\ [][(connected /\ \E chunk \in Chunks : StdoutData(chunk)) =>
            UNCHANGED <<connected, connectionTimer, sessionTimer,
                        sessionArmed>>]_vars
    /\ [][connected => connected']_vars
    /\ [](sessionArmed <= 1)

C7_Witness ==
    /\ connected
    /\ markerLines >= 2
    /\ sessionArmed = 1
    /\ sessionTimer = "pending"

(* C8: once a close or error event was handled both timers are cancelled,
   whatever was pending and whatever the code; afterwards no timer callback
   runs and no kill request is sent. *)
C8_SettledMeansNoTimers ==
    /\ []((Settled \/ events # <<>>) =>
            (connectionTimer = "null" /\ sessionTimer = "null"))
    /\ [][Settled =>
            (~KillStep /\ UNCHANGED <<connectionTimer, sessionTimer>>)]_vars

C8_Witness ==
    /\ settled = "rejected"
    /\ connected
    /\ KillCalls = <<>>
    /\ events[1] = Event("close", <<137>>)
    /\ sessionTimer = "null"

(* C9 as stated: after spawn the run always eventually ends, whatever the
   child does. *)
C9_RunAlwaysEnds == Spawned ~> (pc = "done")

(* C9 as amended: while the child runs, the timer of the current phase fires
   and a kill is requested unless the child goes first; once the child has
   been signaled, has closed or has failed to spawn, the run ends. *)
C9_EndsOnceChildGone ==
    /\ (child = "running") ~>
          (child # "running" \/ (PendingTimers = 0 /\ KillCalls # <<>>))
    /\ (Spawned /\ child # "running") ~> (pc = "done")

C9_Witness ==
    /\ pc = "done"
    /\ KillCalls # <<>>
    /\ KillCalls[Len(KillCalls)].result = "delivered"
    /\ events # <<>>
    /\ events[1].ev = "close"

----------------------------------------------------------------------------
(* Binary Provisioner *)

CallsOf(f) == SelectSeq(calls, LAMBDA c : c.fn = f)
Count(f) == Len(CallsOf(f))
Extractions == Count("extractZip") + Count("extractTar")
CacheKey == <<cliToolCacheName, stableVersion>>

(* C10: per invocation, a tool-cache hit means no download, extraction, chmod
   or cache store, and the cached path is used unchanged; a miss (or a lookup
   that throws) means one download, then one extraction, then, after the
   executable was verified to exist, one cache store under the key of the
   lookup, and never more than one of each. *)
C10_ProvisionOncePerInvocation ==
    /\ Count("find") <= 1
    /\ Count("find") = 0 =>
         (Count("downloadTool") = 0 /\ Extractions = 0
            /\ Count("chmodSync") = 0 /\ Count("cacheFile") = 0)
    /\ Count("find") = 1 =>
         LET lookup == CallsOf("find")[1] IN
         /\ lookup.arg = CacheKey
         /\ (lookup.result = "hit") =>
               /\ Count("downloadTool") = 0
               /\ Extractions = 0
               /\ Count("chmodSync") = 0
               /\ Count("cacheFile") = 0
               /\ cliPath = ToolDir(cliToolCacheName, stableVersion)
               /\ \A i \in 1..Count("spawn") : CallsOf("spawn")[i].arg = cliPath
         /\ (lookup.result \in {"miss", "throws"}) =>
               /\ Count("downloadTool") <= 1
               /\ Extractions <= 1
               /\ Count("cacheFile") <= 1
               /\ (pc = "download") =>
                     (Count("downloadTool") = 0 /\ Extractions = 0)
               /\ (pc = "extract") =>
                     (Count("downloadTool") = 1 /\ Extractions = 0)
               /\ (pc \in {"verify", "store"}) =>
                     (Count("downloadTool") = 1 /\ Extractions = 1
                        /\ Count("cacheFile") = 0)
               /\ (Count("cacheFile") = 1) =>
                     /\ Count("downloadTool") = 1
                     /\ Extractions = 1
                     /\ CallsOf("existsSync") =
                           <<Call("existsSync", <<cliName>>, "true")>>
                     /\ CallsOf("cacheFile")[1].arg = lookup.arg
               /\ (cliPath # NoPath) =>
                     /\ Count("downloadTool") = 1
                     /\ Extractions = 1
                     /\ Count("cacheFile") = 1
                     /\ CacheKey \in toolCache

C10_Witness ==
    /\ Count("find") = 1
    /\ CallsOf("find")[1].result = "miss"
    /\ Count("downloadTool") = 1
    /\ Extractions = 1
    /\ Count("cacheFile") = 1
    /\ Count("spawn") = 1

----------------------------------------------------------------------------
(* C11 as stated: over the runs sharing one tool cache, the archive of a
   (tool name, version) pair is downloaded at most once in total. *)
C11_DownloadedAtMostOnce ==
    \A v \in Versions : downloads[v] <= 1

(* C11 as amended: a run downloads the archive of its version at most once,
   and only when the key is not in the tool cache or its lookup threw; a run
   whose lookup hits downloads nothing. *)
C11_DownloadOnlyOnMissOrThrow ==
    /\ [](\A v \in Versions : downloads[v] <= invocation)
    /\ [][\A v \in Versions :
            downloads'[v] # downloads[v] =>
               /\ downloads'[v] = downloads[v] + 1
               /\ v = stableVersion
               /\ Count("downloadTool") = 0
               /\ \/ <<cliToolCacheName, v>> \notin toolCache
                  \/ CallsOf("find")[1].result = "throws"]_vars

C11_Witness ==
    /\ invocation = 2
    /\ Count("find") = 1
    /\ CallsOf("find")[1].result = "hit"
    /\ downloads[stableVersion] = 1
    /\ Count("spawn") = 1

(* C12: the path handed to spawn is the executable file: the tool directory of
   the (tool name, version) key joined with the executable name, after a
   cache hit as after a miss. *)
C12_SpawnGetsExecutable ==
    \A i \in 1..Count("spawn") :
        CallsOf("spawn")[i].arg =
            join(ToolDir(cliToolCacheName, stableVersion), cliName)

(* The extraction that fits an archive file name *)
ExtractionFor(fileName) ==
    IF fileName = "code-cli.zip" THEN "extractZip" ELSE "extractTar"

(* C13: on a cache miss the archive is extracted with the format of the
   platform's archive: zip for the .zip archives of darwin and win32, tar for
   linux. *)
C13_ExtractionMatchesArchive ==
    \A i \in 1..Len(calls) :
        calls[i].fn \in {"extractZip", "extractTar"} =>
            /\ calls[i].arg = <<downloadFileName>>
            /\ calls[i].fn = ExtractionFor(downloadFileName)

(* A configuration the run must refuse *)
ConfigError ==
    \/ runnerArch # "x64"
    \/ runnerPlatform \notin SupportedPlatforms
    \/ length(tunnelName) > MaxTunnelNameLength

(* C14: with an architecture other than x64, a platform outside linux, darwin
   and win32, or a tunnel name longer than 20 characters, the run makes no
   external call (version request, directory creation, cache lookup,
   download, cache restore, spawn) and ends as a failure; no name longer than
   20 characters is passed to the child with --name. *)
C14_ConfigErrorsBeforeAnyAction ==
    /\ ConfigError =>
         /\ calls = <<>>
         /\ child = "none"
         /\ nameArg = <<>>
         /\ pc \in {"validate", "start", "done"}
         /\ (pc = "done") => (exitStatus = <<1>> /\ failedMsg # NoError)
    /\ (nameArg # <<>>) => length(nameArg[1]) <= MaxTunnelNameLength

C14_Witness ==
    /\ pc = "done"
    /\ length(tunnelName) > MaxTunnelNameLength
    /\ runnerArch = "x64"
    /\ runnerPlatform \in SupportedPlatforms
    /\ failedMsg = Error("Tunnel name must be 20 characters or fewer.")

(* The request is over: it threw, failed, was aborted, or the body ended
   (and was parsed, or the handler threw) *)
RequestOver ==
    request \in {"threw", "failed", "aborted", "parsefailed", "ended"}

(* C15: the promise of the Version Resolver settles exactly once and never
   rejects; when the request throws or fails, or the response ends abnormally
   before the body is complete, it resolves with the empty string. *)
C15_ResolverAlwaysSettles ==
    RequestOver =>
        /\ Len(resolved) = 1
        /\ (request # "ended") => resolved = <<Empty>>

(* The version C16 states for a body of one of its three shapes *)
StatedVersion(b) ==
    IF ~b.json THEN trim(b.text)
    ELSE IF b.type = "array"
      THEN or(b.elems[1].version, or(b.elems[1].name, String(b.elems[1])))
      ELSE or(b.version, or(b.name, String(b)))

StatedShape(b) ==
    \/ ~b.json
    \/ b.type = "object"
    \/ b.type = "array" /\ Len(b.elems) > 0

(* The end handler ran without throwing and settled the promise *)
Parsed == request = "ended" /\ Len(resolved) = 1

(* C16 as stated: array: version, else name, else string form of the first
   element; object: version, else name, else its string form; not JSON: the
   trimmed raw body. *)
C16_VersionAsStated ==
    (Parsed /\ StatedShape(body)) =>
        resolved[1] = StatedVersion(body)

(* C16 as amended: a non-empty array whose first element is truthy gives the
   element's version, else its name, else its string form, and a falsy first
   element gives ''; an object (or an empty array) gives version, else name,
   else ''; a JSON string gives itself and any other JSON value ''; a body
   that is not JSON gives its trimmed text. *)
AmendedVersion(b) ==
    CASE ~b.json -> Str(b.text.core)
      [] b.json /\ b.type = "array" /\ b.elems # <<>> ->
           LET e == b.elems[1] IN
           CASE e.type = "null" -> Empty
             [] e.type = "number" ->
                  IF e.text = Str(<<"0">>) THEN Empty ELSE e.text
             [] e.type = "string" -> e.text
             [] OTHER ->
                  IF e.version # Empty THEN e.version
                  ELSE IF e.name # Empty THEN e.name
                  ELSE Str(<<"[object Object]">>)
      [] b.json /\ b.type = "string" -> b.text
      [] b.json /\ b.type \in {"number", "null"} -> Empty
      [] OTHER ->
           IF b.version # Empty THEN b.version
           ELSE IF b.name # Empty THEN b.name
           ELSE Empty

C16_VersionAsAmended ==
    Parsed => resolved[1] = AmendedVersion(body)

C16_Witness ==
    /\ Parsed
    /\ body = Json("object", Empty, Str(<<"1.2.3">>), Empty, <<>>)
    /\ resolved = <<Str(<<"1.2.3">>)>>

(* Data-directory cache calls, and the key derived from the identity *)
DataCacheKey == <<"vscode-cli-data", githubActor>>
Indexes(f) == {i \in DOMAIN calls : calls[i].fn = f}
CacheStepThrew ==
    \E i \in Indexes("restoreCache") \cup Indexes("saveCache") :
        calls[i].result = "throws"

(* C17: a failing restore or save of the data directory is never fatal: the
   run goes on to spawn the child and the failure is not the reported
   outcome. *)
C17_CacheErrorsNeverFatal ==
    CacheStepThrew =>
        /\ failedMsg # Error("restoreCache failed")
        /\ (pc = "done") => Count("spawn") = 1

(* C18: with an identity, the restore under the identity's key precedes the
   spawn, and a save happens only under the same key, after the spawn, and
   after the wait resolved on a close event whose code is not a non-zero
   number; never after a rejection (non-zero code, spawn error).  Without an
   identity there is neither restore nor save. *)
C18_RestoreBeforeSpawnSaveAfterCleanExit ==
    /\ (githubActor = "") =>
          Indexes("restoreCache") \cup Indexes("saveCache") = {}
    /\ \A i \in Indexes("restoreCache") \cup Indexes("saveCache") :
          calls[i].arg = DataCacheKey
    /\ (githubActor # "") =>
          \A i \in Indexes("spawn") :
             \E j \in Indexes("restoreCache") :
                j < i /\ calls[j].result # "throws"
    /\ \A i \in Indexes("saveCache") :
          /\ \E j \in Indexes("spawn") : j < i /\ calls[j].result # "throws"
          /\ settled = "resolved"
          /\ events # <<>>
          /\ events[1].ev = "close"
          /\ ~truthy(events[1].code)
    /\ Cardinality(Indexes("restoreCache")) <= 1
    /\ Cardinality(Indexes("saveCache")) <= 1

C18_Witness ==
    /\ pc = "done"
    /\ githubActor # ""
    /\ Count("restoreCache") = 1
    /\ Count("saveCache") = 1
    /\ events[1] = Event("close", <<0>>)

(* C19: in a run with no-cache-cli-auth set to true the data directory is
   neither restored from nor saved to the identity-keyed cache. *)
C19_NoCacheDisablesDataCache ==
    noCacheCliAuth =>
        Indexes("restoreCache") \cup Indexes("saveCache") = {}

(* C20: once the keep-alive duration has elapsed since the tunnel was
   started, the action eventually completes, even if the child never exits
   by itself. *)
C20_CompletesAfterKeepAlive == keepAliveElapsed ~> (pc = "done")

(* Calls whose exception is not caught where it is raised, and the message
   of the error each raises *)
ThrowingCalls ==
    {"downloadTool", "extractZip", "extractTar", "cacheFile", "restoreCache"}
Thrown == {i \in DOMAIN calls :
              calls[i].fn \in ThrowingCalls /\ calls[i].result = "throws"}
ThrownText(f) ==
    CASE f = "downloadTool" -> "download failed"
      [] f \in {"extractZip", "extractTar"} -> "extraction failed"
      [] f = "cacheFile" -> "cacheFile failed"
      [] OTHER -> "restoreCache failed"

(* The fatal error of the run, NoError when there is none *)
FatalCause ==
    IF runnerArch # "x64" THEN Error("Unsupported architecture")
    ELSE IF runnerPlatform \notin SupportedPlatforms
      THEN Error("Unsupported platform")
    ELSE IF \E i \in Indexes("https.get") : calls[i].result = "empty"
      THEN Error("Failed to determine stable VS Code version")
    ELSE IF Thrown # {}
      THEN Error(ThrownText(calls[CHOOSE i \in Thrown : TRUE].fn))
    ELSE IF \E i \in Indexes("existsSync") : calls[i].result = "false"
      THEN Error("VS Code CLI not found at expected path")
    ELSE IF events # <<>> /\ events[1].ev = "error"
      THEN Error("spawn ENOENT")
    ELSE IF events # <<>> /\ truthy(events[1].code)
      THEN ExitError(events[1].code)
    ELSE NoError

(* C21: a run that ended reports the message of its fatal error and exits
   with status 1 exactly when a fatal error occurred, and otherwise reports
   nothing and ends with status 0; nothing is reported before the end, and a
   reported failure and the exit status never change afterwards. *)
C21_OneHandlerOneFailure ==
    /\ []((pc # "done") => (failedMsg = NoError /\ exitStatus = <<>>))
    /\ []((pc = "done") =>
            /\ failedMsg = FatalCause
            /\ exitStatus = IF FatalCause = NoError THEN <<0>> ELSE <<1>>
            /\ Cardinality(Thrown) <= 1)
    /\ [][(failedMsg # NoError \/ exitStatus # <<>>) =>
             (failedMsg' = failedMsg /\ exitStatus' = exitStatus)]_vars

C21_Witness ==
    /\ pc = "done"
    /\ exitStatus = <<1>>
    /\ failedMsg = ExitError(<<137>>)
    /\ events[1] = Event("close", <<137>>)

(* The connection timer fired and requested the kill *)
ConnectionKillRequested ==
    \E i \in Indexes("kill") : calls[i].arg = <<"Connection timeout">>

(* C23: once the connection timer has fired and the kill was requested, the
   supervisor is never Connected and the session timer is never armed,
   whatever the child still writes before its close event. *)
C23_KillAfterTimeoutIsTerminal ==
    ConnectionKillRequested =>
        /\ ~connected
        /\ sessionTimer = "null"
        /\ sessionArmed = 0

(* C25: in the simple variant, a close with a non-zero exit code makes the
   action fail with that code in the failure message; the action succeeds
   only on a zero or null code. *)
C25_ExitCodeForwarded ==
    (pc = "done" /\ events # <<>> /\ events[1].ev = "close") =>
        IF truthy(events[1].code)
          THEN exitStatus = <<1>> /\ failedMsg = ExitError(events[1].code)
          ELSE exitStatus = <<0>> /\ failedMsg = NoError

(* The text handed to the data handler so far, its lines that are complete
   (ended by a line end), and all its non-empty lines *)
DeliveredText == SubSeq(written, 1, delivered)
CompleteLines ==
    LET pieces == split(DeliveredText)
    IN  SelectSeq(SubSeq(pieces, 1, Len(pieces) - 1), nonEmpty)
InSeq(q) == {q[i] : i \in DOMAIN q}

(* C22: on stdout, as soon as the text delivered so far holds a complete line
   containing the connection marker, the supervisor is Connected, whatever
   the chunk boundaries; no empty line is classified. *)
C22_ConnectedOnMarkerLine ==
    /\ (channel = "stdout" /\ \E l \in InSeq(CompleteLines) : hasIndicator(l))
          => connected
    /\ \A i \in DOMAIN log : log[i].line # <<>>

(* Characters of a text other than line ends *)
notLineEnd(c) == c \notin {"\n", "\r"}
RECURSIVE flatten(_)
flatten(q) == IF q = <<>> THEN <<>> ELSE Head(q) \o flatten(Tail(q))
isLine(e) == e.line # ConnectionDetected
LinesAt(level) ==
    LET at(e) == e.level = level /\ isLine(e)
        es == SelectSeq(log, at)
    IN  [i \in DOMAIN es |-> es[i].line]
isInstruction(line) ==
    startsWith(line, OpenThisLink) \/ startsWith(line, ToGrantAccess)

(* C24: every non-empty stdout line is emitted at debug level, and right
   after it at info level exactly when it begins with an instruction prefix;
   every non-empty stderr line is emitted at error level and nothing else is;
   stderr output leaves the connection state and the timers alone. *)
C24_LogClassification ==
    /\ \A i \in DOMAIN log :
          /\ log[i].line # <<>>
          /\ isLine(log[i]) => "\n" \notin InSeq(log[i].line)
    /\ (channel = "stdout") =>
          /\ \A i \in DOMAIN log : log[i].level \in {"debug", "info"}
          /\ SelectSeq(flatten(LinesAt("debug")), notLineEnd)
                = SelectSeq(DeliveredText, notLineEnd)
          /\ \A i \in DOMAIN log :
                (log[i].level = "info") =>
                    /\ isInstruction(log[i].line)
                    /\ i > 1
                    /\ log[i - 1] = Entry("debug", log[i].line)
          /\ \A i \in DOMAIN log :
                (log[i].level = "debug" /\ isInstruction(log[i].line)) =>
                    /\ i < Len(log)
                    /\ log[i + 1] = Entry("info", log[i].line)
    /\ (channel = "stderr") =>
          /\ \A i \in DOMAIN log : log[i].level = "error"
          /\ SelectSeq(flatten(LinesAt("error")), notLineEnd)
                = SelectSeq(DeliveredText, notLineEnd)
          /\ ~connected
          /\ sessionTimer = "null"
          /\ sessionArmed = 0
          /\ (pc = "wait" /\ child = "running") => connectionTimer = "pending"

C24_Witness ==
    /\ channel = "stdout"
    /\ delivered = Len(written)
    /\ written = <<"o", "m", "\n">>
    /\ log = <<Entry("debug", <<"o", "m">>), Entry("info", <<"o", "m">>)>>

====
